---- MODULE Spec2Model ----
(***************************************************************************)
(* ZettlrConfig (source/main/zettlr-config.js): the configuration store.   *)
(* The configuration tree is a JavaScript object graph; values are         *)
(* modelled as records of one shape, so that any two values compare.       *)
(***************************************************************************)
EXTENDS Integers, Sequences, FiniteSets, TLC

VARIABLES
  pc,       \* the constructor's position: new, loaded, checked, pruned, ready, crashed
  cfgtpl,   \* this.cfgtpl: the template object
  config,   \* this.config: "null", or "cfgtpl", a reference to the template object
  rules,    \* this._rules
  file,     \* the backing file config.json
  envPATH,  \* process.env.PATH
  op,       \* the last call: its name and arguments
  ret,      \* the last call's outcome: [threw, val]
  emitted,  \* the number of 'update' events the last call emitted
  rets,     \* the results of the sets the last bulkSet made
  nops      \* the number of public calls made so far

vars == <<pc, cfgtpl, config, rules, file, envPATH, op, ret, emitted, rets, nops>>

\* Number of public calls made on the constructed store in one behaviour.
MaxOps == 2

(***************************************************************************)
(* JavaScript values.  kind is one of undefined, hole (an array hole),     *)
(* null, bool, num, str, list, obj.  A list's props are its elements, an   *)
(* object's props are its own enumerable properties [k, v] in insertion    *)
(* order.                                                                  *)
(***************************************************************************)
V(kind, num, str, props) == [kind |-> kind, num |-> num, props |-> props, str |-> str]

Undefined == V("undefined", 0, "", <<>>)

Hole == V("hole", 0, "", <<>>)

Null == V("null", 0, "", <<>>)

Bool(b) == V("bool", IF b THEN 1 ELSE 0, "", <<>>)

Num(n) == V("num", n, "", <<>>)

Str(s) == V("str", 0, s, <<>>)

List(elems) == V("list", 0, "", elems)

Obj(entries) == V("obj", 0, "", entries)

P(k, v) == [k |-> k, v |-> v]

NaN == 0 - 1

Digits == <<"0", "1", "2", "3", "4", "5", "6", "7", "8", "9">>

IsIndex(k) == \E i \in 1..Len(Digits) : Digits[i] = k

IndexOf(k) == (CHOOSE i \in 1..Len(Digits) : Digits[i] = k) - 1

\* null and undefined have no properties: any property access on them throws.
Nullish(v) == v.kind \in {"null", "undefined", "hole"}

Keys(o) == {o.props[i].k : i \in 1..Len(o.props)}

PropIndex(o, k) == CHOOSE i \in 1..Len(o.props) : o.props[i].k = k

\* v.hasOwnProperty(k), for v neither null nor undefined.
HasOwn(v, k) ==
  CASE v.kind = "obj" -> k \in Keys(v)
    [] v.kind = "list" ->
         \/ k = "length"
         \/ /\ IsIndex(k)
            /\ IndexOf(k) < Len(v.props)
            /\ v.props[IndexOf(k) + 1].kind # "hole"
    [] v.kind = "str" -> k = "length" \/ (IsIndex(k) /\ IndexOf(k) < Len(v.str))
    [] OTHER -> FALSE

\* v[k], for an own property k of v.
GetProp(v, k) ==
  CASE v.kind = "obj" -> v.props[PropIndex(v, k)].v
    [] v.kind = "list" ->
         IF k = "length" THEN Num(Len(v.props)) ELSE v.props[IndexOf(k) + 1]
    [] v.kind = "str" ->
         IF k = "length" THEN Num(Len(v.str))
         ELSE Str(SubSeq(v.str, IndexOf(k) + 1, IndexOf(k) + 1))
    [] OTHER -> Undefined

\* ToNumber of a string: the model's strings are empty, one digit, or not numeric.
StringToNumber(s) == IF s = "" THEN 0 ELSE IF IsIndex(s) THEN IndexOf(s) ELSE NaN

RECURSIVE ToNumber(_)
ToNumber(v) ==
  CASE v.kind = "null" -> 0
    [] v.kind \in {"bool", "num"} -> v.num
    [] v.kind = "str" -> StringToNumber(v.str)
    [] v.kind = "list" ->
         IF Len(v.props) = 0 THEN 0
         ELSE IF Len(v.props) > 1 THEN NaN
         ELSE LET e == v.props[1] IN
              IF Nullish(e) THEN 0
              ELSE IF e.kind = "bool" THEN NaN
              ELSE ToNumber(e)
    [] OTHER -> NaN

\* The object or array o with own property k holding val.
PutProp(o, k, val) ==
  IF o.kind = "obj"
  THEN [o EXCEPT !.props[PropIndex(o, k)].v = val]
  ELSE [o EXCEPT !.props[IndexOf(k) + 1] = val]

\* Array length assignment: truncates, or extends with holes.
SetLength(a, n) ==
  IF n <= Len(a.props)
  THEN [a EXCEPT !.props = SubSeq(a.props, 1, n)]
  ELSE [a EXCEPT !.props = a.props \o [i \in 1..(n - Len(a.props)) |-> Hole]]

\* cfg[prop] = value in strict mode (class bodies are strict), for an own
\* property prop of cfg: [threw, cfg].
Assign(cfg, prop, value) ==
  CASE cfg.kind = "obj" -> [threw |-> FALSE, cfg |-> PutProp(cfg, prop, value)]
    [] cfg.kind = "list" /\ prop # "length" ->
         [threw |-> FALSE, cfg |-> PutProp(cfg, prop, value)]
    [] cfg.kind = "list" /\ prop = "length" ->
         IF ToNumber(value) < 0
         THEN [threw |-> TRUE, cfg |-> cfg]  \* RangeError: Invalid array length
         ELSE [threw |-> FALSE, cfg |-> SetLength(cfg, ToNumber(value))]
    [] OTHER -> [threw |-> TRUE, cfg |-> cfg]  \* TypeError: read only property of a primitive

(***************************************************************************)
(* Option keys.  A key is the sequence of its segments, option.split('.'); *)
(* Dotted(key) is the option string itself.                                *)
(***************************************************************************)
RECURSIVE Dotted(_)
Dotted(key) ==
  IF Len(key) = 0 THEN ""
  ELSE IF Len(key) = 1 THEN key[1]
  ELSE key[1] \o "." \o Dotted(Tail(key))

\* option.indexOf('.') > 0
IsNested(key) == Len(key) > 1 /\ key[1] # ""

(***************************************************************************)
(* The configuration template (constructor), reduced to one option of each *)
(* shape the template has: an empty list, null, a boolean, a string, a     *)
(* nested object of a string and a number; in the template's order.        *)
(***************************************************************************)
DefaultTemplate ==
  Obj(<< P("openPaths", List(<<>>)),
         P("lastFile", Null),
         P("darkTheme", Bool(FALSE)),
         P("pandoc", Str("pandoc")),
         P("xelatex", Str("xelatex")),
         P("pdf", Obj(<< P("papertype", Str("a4paper")), P("fontsize", Num(12)) >>)),
         P("selectedDicts", List(<<>>)),
         P("uuid", Null) >>)

\* The validation rules booted from validation.json: one rule per dotted key,
\* each an opaque predicate, here a check of the value's type.
ValidationRules ==
  << [key |-> "darkTheme", type |-> "bool"],
     [key |-> "pdf.fontsize", type |-> "num"] >>

\* ZettlrValidation.validate
RuleValidate(rule, value) == value.kind = rule.type

\* _validate(key, value)
Validate(rs, key, value) ==
  IF \E i \in 1..Len(rs) : rs[i].key = key
  THEN RuleValidate(rs[CHOOSE i \in 1..Len(rs) :
                         /\ rs[i].key = key
                         /\ \A j \in 1..(i - 1) : rs[j].key # key], value)
  ELSE TRUE

(***************************************************************************)
(* get(attr): [threw, val].  The walk calls hasOwnProperty on whatever the *)
(* previous segment held, which throws on null.                            *)
(***************************************************************************)
RECURSIVE GetWalk(_, _, _)
GetWalk(cfg, key, i) ==
  IF i > Len(key) THEN [threw |-> FALSE, val |-> cfg]
  ELSE IF Nullish(cfg) THEN [threw |-> TRUE, val |-> Undefined]
  ELSE IF HasOwn(cfg, key[i]) THEN GetWalk(GetProp(cfg, key[i]), key, i + 1)
  ELSE [threw |-> FALSE, val |-> Null]

Get(cfg, key) ==
  IF Dotted(key) = "" THEN [threw |-> FALSE, val |-> cfg]
  ELSE IF IsNested(key) THEN GetWalk(cfg, key, 1)
  ELSE IF HasOwn(cfg, Dotted(key)) THEN [threw |-> FALSE, val |-> GetProp(cfg, Dotted(key))]
  ELSE [threw |-> FALSE, val |-> Null]

(***************************************************************************)
(* set(option, value): [cfg, emits, ret] with ret one of "true", "false",  *)
(* "throw".                                                                *)
(***************************************************************************)
RECURSIVE SetWalk(_, _, _, _, _)
SetWalk(cfg, key, i, value, rs) ==
  IF Nullish(cfg) THEN [cfg |-> cfg, emits |-> 0, ret |-> "throw"]
  ELSE IF i < Len(key)
  THEN IF HasOwn(cfg, key[i])
       THEN LET sub == SetWalk(GetProp(cfg, key[i]), key, i + 1, value, rs) IN
            IF sub.ret = "true"
            THEN [sub EXCEPT !.cfg = PutProp(cfg, key[i], sub.cfg)]
            ELSE [sub EXCEPT !.cfg = cfg]
       ELSE [cfg |-> cfg, emits |-> 0, ret |-> "false"]
  ELSE IF HasOwn(cfg, key[i]) /\ Validate(rs, Dotted(key), value)
       THEN LET a == Assign(cfg, key[i], value) IN
            IF a.threw THEN [cfg |-> cfg, emits |-> 0, ret |-> "throw"]
            ELSE [cfg |-> a.cfg, emits |-> 1, ret |-> "true"]
       ELSE [cfg |-> cfg, emits |-> 0, ret |-> "false"]

Set(cfg, key, value, rs) ==
  IF HasOwn(cfg, Dotted(key)) /\ Validate(rs, Dotted(key), value)
  THEN [cfg |-> PutProp(cfg, Dotted(key), value), emits |-> 1, ret |-> "true"]
  ELSE IF IsNested(key) THEN SetWalk(cfg, key, 1, value, rs)
  ELSE [cfg |-> cfg, emits |-> 0, ret |-> "false"]

(***************************************************************************)
(* bulkSet(cfgObj): the entries [key, v] of cfgObj in order; a set that    *)
(* throws ends the loop.  [cfg, emits, ret, rets] with rets the results of *)
(* the sets that were made.                                                *)
(***************************************************************************)
RECURSIVE BulkSetFrom(_, _, _, _, _)
BulkSetFrom(cfg, entries, i, rs, acc) ==
  IF i > Len(entries)
  THEN [cfg |-> cfg, emits |-> 0, rets |-> <<>>, ret |-> IF acc THEN "true" ELSE "false"]
  ELSE LET r == Set(cfg, entries[i].key, entries[i].v, rs) IN
       IF r.ret = "throw"
       THEN [cfg |-> r.cfg, emits |-> r.emits, rets |-> <<"throw">>, ret |-> "throw"]
       ELSE LET rest == BulkSetFrom(r.cfg, entries, i + 1, rs, acc /\ r.ret = "true") IN
            [rest EXCEPT !.emits = @ + r.emits, !.rets = <<r.ret>> \o @]

BulkSet(cfg, entries, rs) == BulkSetFrom(cfg, entries, 1, rs, TRUE)

(***************************************************************************)
(* update(newcfg, oldcfg): [cfg, emits, threw].  UpdateFrom runs the loop  *)
(* over oldcfg's properties from the i-th on, and the emit after the loop. *)
(***************************************************************************)
RECURSIVE UpdateFrom(_, _, _)
UpdateFrom(newcfg, oldcfg, i) ==
  IF i > Len(oldcfg.props) THEN [cfg |-> oldcfg, emits |-> 1, threw |-> FALSE]
  ELSE IF Nullish(newcfg) THEN [cfg |-> oldcfg, emits |-> 0, threw |-> TRUE]
  ELSE LET prop == oldcfg.props[i].k
           old == oldcfg.props[i].v
       IN
       IF ~HasOwn(newcfg, prop) THEN UpdateFrom(newcfg, oldcfg, i + 1)
       ELSE IF old.kind = "obj"
       THEN LET sub == UpdateFrom(GetProp(newcfg, prop), old, 1)
                merged == [oldcfg EXCEPT !.props[i].v = sub.cfg]
            IN
            IF sub.threw THEN [cfg |-> merged, emits |-> sub.emits, threw |-> TRUE]
            ELSE LET rest == UpdateFrom(newcfg, merged, i + 1) IN
                 [rest EXCEPT !.emits = @ + sub.emits]
       ELSE UpdateFrom(newcfg, [oldcfg EXCEPT !.props[i].v = GetProp(newcfg, prop)], i + 1)

\* update without the recursion: a container is overwritten like a scalar.
UpdateShallow(newcfg, oldcfg) ==
  IF Len(oldcfg.props) > 0 /\ Nullish(newcfg)
  THEN [cfg |-> oldcfg, emits |-> 0, threw |-> TRUE]
  ELSE [cfg |-> [oldcfg EXCEPT !.props =
                   [i \in 1..Len(oldcfg.props) |->
                      IF HasOwn(newcfg, oldcfg.props[i].k)
                      THEN P(oldcfg.props[i].k, GetProp(newcfg, oldcfg.props[i].k))
                      ELSE oldcfg.props[i]]],
        emits |-> 1, threw |-> FALSE]

\* update that also takes over the keys of newcfg that oldcfg does not have.
UpdateAdding(newcfg, oldcfg) ==
  LET u == UpdateFrom(newcfg, oldcfg, 1) IN
  IF u.threw \/ newcfg.kind # "obj" THEN u
  ELSE [u EXCEPT !.cfg.props =
          @ \o SelectSeq(newcfg.props, LAMBDA e : e.k \notin Keys(oldcfg))]

Update(newcfg, oldcfg) == UpdateFrom(newcfg, oldcfg, 1)

(***************************************************************************)
(* JSON.stringify, as the JSON value the text denotes: a hole or undefined *)
(* element is written null, an undefined property is left out.             *)
(***************************************************************************)
RECURSIVE Stringify(_)
Stringify(v) ==
  CASE v.kind = "list" ->
         List([i \in 1..Len(v.props) |->
                 IF v.props[i].kind \in {"hole", "undefined"} THEN Null
                 ELSE Stringify(v.props[i])])
    [] v.kind = "obj" ->
         Obj([i \in 1..Len(SelectSeq(v.props, LAMBDA e : e.v.kind # "undefined")) |->
                 LET e == SelectSeq(v.props, LAMBDA x : x.v.kind # "undefined")[i] IN
                 P(e.k, Stringify(e.v))])
    [] OTHER -> v

(***************************************************************************)
(* The environment: the file system, the dictionaries, the search path.    *)
(***************************************************************************)
\* The paths of the model, in ascending order of their UTF-16 code units.
AllPaths == <<"/a/dir", "/a/file.txt", "/b/dir", "/gone">>

ExistingPaths == {"/a/dir", "/a/file.txt", "/b/dir"}

Directories == {"/a/dir", "/b/dir"}

AvailableDicts == {"en_US", "nl_NL"}

\* The folders of the dictionaries: path.join(__dirname, './assets/dict') and
\* path.join(this.configPath, '/dict'), and the directories in them.
BundledDicts == "/app/assets/dict"

UserDicts == "/data/dict"

DictDirectories ==
  {"/app/assets/dict/en_US", "/app/assets/dict/de_DE", "/app/assets/dict/nl_NL",
   "/data/dict/en_US", "/data/dict/de_DE", "/data/dict/nl_NL"}

\* fs.lstatSync(p) returns (it throws for a missing path and for a non-string).
LstatOk(p) == p.kind = "str" /\ p.str \in ExistingPaths

\* isDir (zettlr-helpers.js)
IsDir(p) == p.kind = "str" /\ p.str \in Directories \cup DictDirectories

\* ignoreFile (zettlr-helpers.js): the path is not of a file type the app opens.
\* It goes by the name alone: a name without extension is ignorable.
IgnoredPaths == {"/a/dir", "/b/dir", "/gone"}

IgnoreFile(p) == p.kind = "str" /\ p.str \in IgnoredPaths

\* isDictAvailable (zettlr-helpers.js)
IsDictAvailable(d) == d.kind = "str" /\ d.str \in AvailableDicts

\* COMMON_DATA.additional_paths of the platform, and its delimiter.
AdditionalPaths == <<"/usr/local/bin", "/opt/tex/", "/Library/TeX/texbin">>

Delim == ":"

\* uuid('com.zettlr.app', uuid.DNS): a version 5 UUID, a function of its arguments.
Uuid5 == Str("uuid5(com.zettlr.app, DNS)")

(***************************************************************************)
(* Strings.                                                                *)
(***************************************************************************)
\* s.indexOf(sub) > -1
Contains(s, sub) ==
  \E i \in 1..(Len(s) - Len(sub) + 1) : SubSeq(s, i, i + Len(sub) - 1) = sub

\* s.split(d), for a delimiter d of one character.
RECURSIVE Split(_, _)
Split(s, d) ==
  IF ~Contains(s, d) THEN <<s>>
  ELSE LET i == CHOOSE j \in 1..Len(s) :
                  /\ SubSeq(s, j, j) = d
                  /\ \A k \in 1..(j - 1) : SubSeq(s, k, k) # d
       IN <<SubSeq(s, 1, i - 1)>> \o Split(SubSeq(s, i + 1, Len(s)), d)

\* parts.join(d)
RECURSIVE Join(_, _)
Join(parts, d) ==
  IF Len(parts) = 0 THEN ""
  ELSE IF Len(parts) = 1 THEN parts[1]
  ELSE parts[1] \o d \o Join(Tail(parts), d)

\* path.dirname(p) on a POSIX platform: the text before the last slash that
\* a character other than a slash follows; the first character is not looked at.
Dirname(p) ==
  LET n == Len(p)
      hasRoot == n > 0 /\ SubSeq(p, 1, 1) = "/"
      ends == {j \in 2..n : /\ SubSeq(p, j, j) = "/"
                            /\ \E k \in (j + 1)..n : SubSeq(p, k, k) # "/"}
      end == CHOOSE j \in ends : \A k \in ends : k <= j
  IN
  IF n = 0 THEN "."
  ELSE IF ends = {} THEN (IF hasRoot THEN "/" ELSE ".")
  ELSE IF hasRoot /\ end = 2 THEN "//"
  ELSE SubSeq(p, 1, end - 1)

(***************************************************************************)
(* The path list.                                                          *)
(***************************************************************************)
\* The place of p in the order of sort(): undefined is put after every string.
Rank(p) ==
  IF p.kind = "str" THEN CHOOSE i \in 1..Len(AllPaths) : AllPaths[i] = p.str
  ELSE Len(AllPaths) + 1

RemoveAt(seq, i) == SubSeq(seq, 1, i - 1) \o SubSeq(seq, i + 1, Len(seq))

\* seq.includes(x)
Includes(seq, x) == \E i \in 1..Len(seq) : seq[i] = x

\* Array.prototype.sort() of path strings: ascending order of code units.
RECURSIVE Sort(_)
Sort(seq) ==
  IF Len(seq) = 0 THEN <<>>
  ELSE LET m == CHOOSE i \in 1..Len(seq) :
                  /\ \A j \in 1..Len(seq) : Rank(seq[i]) <= Rank(seq[j])
                  /\ \A j \in 1..(i - 1) : Rank(seq[j]) # Rank(seq[i])
       IN <<seq[m]>> \o Sort(RemoveAt(seq, m))

\* [...new Set(seq)]: the first occurrence of each element, in order.
RECURSIVE Dedupe(_)
Dedupe(seq) ==
  IF Len(seq) = 0 THEN <<>>
  ELSE LET front == Dedupe(SubSeq(seq, 1, Len(seq) - 1))
           e == seq[Len(seq)]
       IN IF \E i \in 1..Len(front) : front[i] = e THEN front ELSE Append(front, e)

\* f.concat(d) without the two sorts.
ConcatPaths(paths) ==
  LET read == [i \in 1..Len(paths.props) |->
                 IF paths.props[i].kind = "hole" THEN Undefined ELSE paths.props[i]]
  IN List(SelectSeq(read, LAMBDA p : ~IsDir(p)) \o SelectSeq(read, LAMBDA p : IsDir(p)))

\* _sortPaths, on the list paths; the loop reads a hole as undefined.
SortPaths(paths) ==
  LET read == [i \in 1..Len(paths.props) |->
                 IF paths.props[i].kind = "hole" THEN Undefined ELSE paths.props[i]]
      f == SelectSeq(read, LAMBDA p : ~IsDir(p))
      d == SelectSeq(read, LAMBDA p : IsDir(p))
  IN List(Sort(f) \o Sort(d))

\* The loop over openPaths without the step back of the index: the entry after a removed
\* one is never looked at.
RECURSIVE PrunePathsSkipping(_, _)
PrunePathsSkipping(seq, i) ==
  IF i >= Len(seq) THEN seq
  ELSE IF LstatOk(seq[i + 1]) THEN PrunePathsSkipping(seq, i + 1)
  ELSE PrunePathsSkipping(RemoveAt(seq, i + 1), i + 1)

\* The loop over openPaths at index i (from 0): an entry lstat fails for is
\* spliced out and the index stepped back, so that the entry that moved into
\* its place is looked at next.
RECURSIVE PrunePaths(_, _)
PrunePaths(seq, i) ==
  IF i >= Len(seq) THEN seq
  ELSE IF LstatOk(seq[i + 1]) THEN PrunePaths(seq, i + 1)
  ELSE PrunePaths(RemoveAt(seq, i + 1), (i - 1) + 1)

\* The loop over selectedDicts at index i (from 0).
RECURSIVE PruneDicts(_, _)
PruneDicts(seq, i) ==
  IF i >= Len(seq) THEN seq
  ELSE IF IsDictAvailable(seq[i + 1]) THEN PruneDicts(seq, i + 1)
  ELSE PruneDicts(RemoveAt(seq, i + 1), (i - 1) + 1)

\* checkPaths: [cfg, threw].  Only an array or an empty string survives the
\* loop over openPaths and the spread of a Set of it; the loop over
\* selectedDicts needs its length, and splice for every entry it drops.
CheckPaths(cfg) ==
  LET paths == GetProp(cfg, "openPaths")
      kept == PrunePaths(paths.props, 0)
      sorted == IF paths.kind = "list" THEN SortPaths(List(Dedupe(kept))) ELSE List(<<>>)
      cfg1 == PutProp(cfg, "openPaths", sorted)
      dicts == GetProp(cfg1, "selectedDicts")
  IN
  IF ~(paths.kind = "list" \/ (paths.kind = "str" /\ paths.str = ""))
  THEN [cfg |-> cfg, threw |-> TRUE]
  ELSE IF Nullish(dicts) \/ (dicts.kind = "str" /\ dicts.str # "")
  THEN [cfg |-> cfg1, threw |-> TRUE]
  ELSE IF dicts.kind = "list"
  THEN [cfg |-> PutProp(cfg1, "selectedDicts",
                        List(PruneDicts(dicts.props, 0))),
        threw |-> FALSE]
  ELSE [cfg |-> cfg1, threw |-> FALSE]

\* addPath without the look for p in the list.
AddPathAlways(cfg, p) ==
  LET paths == GetProp(cfg, "openPaths") IN
  IF ~(~IgnoreFile(p) \/ IsDir(p)) THEN [cfg |-> cfg, ret |-> "false"]
  ELSE IF paths.kind = "list"
  THEN [cfg |-> PutProp(cfg, "openPaths", SortPaths(List(Append(paths.props, p)))),
        ret |-> "true"]
  ELSE [cfg |-> cfg, ret |-> "throw"]

\* addPath(p): [cfg, ret] with ret one of "true", "false", "throw".  The
\* classification is looked at first; includes is a method of arrays and of
\* strings (there: p is a part of the string), push of arrays only.
AddPath(cfg, p) ==
  LET paths == GetProp(cfg, "openPaths") IN
  IF ~(~IgnoreFile(p) \/ IsDir(p)) THEN [cfg |-> cfg, ret |-> "false"]
  ELSE IF paths.kind = "list"
  THEN IF Includes(paths.props, p) THEN [cfg |-> cfg, ret |-> "false"]
       ELSE [cfg |-> PutProp(cfg, "openPaths", SortPaths(List(Append(paths.props, p)))),
             ret |-> "true"]
  ELSE IF paths.kind = "str" /\ Contains(paths.str, p.str) THEN [cfg |-> cfg, ret |-> "false"]
  ELSE [cfg |-> cfg, ret |-> "throw"]

\* removePath that drops the last entry instead of the one found.
RemovePathLast(cfg, p) ==
  LET paths == GetProp(cfg, "openPaths") IN
  IF paths.kind = "list"
  THEN IF Includes(paths.props, p)
       THEN [cfg |-> PutProp(cfg, "openPaths",
                             List(RemoveAt(paths.props, Len(paths.props)))),
             threw |-> FALSE]
       ELSE [cfg |-> cfg, threw |-> FALSE]
  ELSE [cfg |-> cfg, threw |-> TRUE]

\* removePath(p): [cfg, threw].  splice(indexOf(p), 1) takes out the first
\* entry equal to p; splice is a method of arrays only.
RemovePath(cfg, p) ==
  LET paths == GetProp(cfg, "openPaths") IN
  IF paths.kind = "list"
  THEN IF Includes(paths.props, p)
       THEN [cfg |-> PutProp(cfg, "openPaths",
                             List(RemoveAt(paths.props,
                                           CHOOSE i \in 1..Len(paths.props) :
                                             /\ paths.props[i] = p
                                             /\ \A j \in 1..(i - 1) : paths.props[j] # p))),
             threw |-> FALSE]
       ELSE [cfg |-> cfg, threw |-> FALSE]
  ELSE IF paths.kind = "str" /\ ~Contains(paths.str, p.str) THEN [cfg |-> cfg, threw |-> FALSE]
  ELSE [cfg |-> cfg, threw |-> TRUE]

(***************************************************************************)
(* checkSystem: [cfg, path, threw].                                        *)
(***************************************************************************)
\* !v
Falsy(v) ==
  \/ Nullish(v)
  \/ v.kind \in {"bool", "num"} /\ v.num = 0
  \/ v.kind = "str" /\ v.str = ""

\* The other form of x: without its trailing slash, or with one.
OtherSlashForm(x) ==
  IF Len(x) > 0 /\ SubSeq(x, Len(x), Len(x)) = "/" THEN SubSeq(x, 1, Len(x) - 1)
  ELSE x \o "/"

\* The loop that looks for the additional path as it is written only.
RECURSIVE AddPathsExact(_, _, _)
AddPathsExact(nPATH, extra, i) ==
  IF i > Len(extra) THEN nPATH
  ELSE IF ~Includes(nPATH, extra[i])
  THEN AddPathsExact(Append(nPATH, extra[i]), extra, i + 1)
  ELSE AddPathsExact(nPATH, extra, i + 1)

RECURSIVE AddPaths(_, _, _)
AddPaths(nPATH, extra, i) ==
  IF i > Len(extra) THEN nPATH
  ELSE IF ~Includes(nPATH, extra[i]) /\ ~Includes(nPATH, OtherSlashForm(extra[i]))
  THEN AddPaths(Append(nPATH, extra[i]), extra, i + 1)
  ELSE AddPaths(nPATH, extra, i + 1)

\* The search path with the directory of the configured binary: [path, threw].
\* path.dirname throws for anything but a string.
AddBinaryDir(path, binary) ==
  IF binary.kind # "str" THEN [path |-> path, threw |-> TRUE]
  ELSE IF Len(Dirname(binary.str)) > 0 /\ ~Contains(path, Dirname(binary.str))
  THEN [path |-> path \o Delim \o Dirname(binary.str), threw |-> FALSE]
  ELSE [path |-> path, threw |-> FALSE]

\* checkSystem that generates the identifier whether the tree holds one or not.
CheckSystemNewUuid(cfg, path) ==
  LET p1 == Join(AddPaths(Split(path, Delim), AdditionalPaths, 1), Delim)
      x == AddBinaryDir(p1, Get(cfg, <<"xelatex">>).val)
      p == AddBinaryDir(x.path, Get(cfg, <<"pandoc">>).val)
  IN
  IF x.threw THEN [cfg |-> cfg, path |-> x.path, threw |-> TRUE]
  ELSE IF p.threw THEN [cfg |-> cfg, path |-> p.path, threw |-> TRUE]
  ELSE [cfg |-> PutProp(cfg, "uuid", Uuid5), path |-> p.path, threw |-> FALSE]

CheckSystem(cfg, path) ==
  LET p1 == IF Len(AdditionalPaths) > 0
            THEN Join(AddPaths(Split(path, Delim), AdditionalPaths, 1), Delim)
            ELSE path
      x == AddBinaryDir(p1, Get(cfg, <<"xelatex">>).val)
      p == AddBinaryDir(x.path, Get(cfg, <<"pandoc">>).val)
  IN
  IF x.threw THEN [cfg |-> cfg, path |-> x.path, threw |-> TRUE]
  ELSE IF p.threw THEN [cfg |-> cfg, path |-> p.path, threw |-> TRUE]
  ELSE IF Falsy(GetProp(cfg, "uuid"))
  THEN [cfg |-> PutProp(cfg, "uuid", Uuid5), path |-> p.path, threw |-> FALSE]
  ELSE [cfg |-> cfg, path |-> p.path, threw |-> FALSE]

(***************************************************************************)
(* load and save.  this.config = this.cfgtpl makes config a reference to   *)
(* the template object: the merge of the file is a merge into the template.*)
(***************************************************************************)
AbsentFile == [exists |-> FALSE, wellformed |-> FALSE, doc |-> Undefined]

MalformedFile == [exists |-> TRUE, wellformed |-> FALSE, doc |-> Undefined]

\* fs.writeFileSync(this.configFile, JSON.stringify(v))
Written(v) == [exists |-> TRUE, wellformed |-> TRUE, doc |-> Stringify(v)]

\* How load finds the backing file.
FileState(f) ==
  IF ~f.exists THEN "absent" ELSE IF ~f.wellformed THEN "malformed" ELSE "parsed"

\* load that returns early without writing the template to the missing file.
LoadWithoutWrite(tpl, f) ==
  IF ~f.exists \/ ~f.wellformed
  THEN [cfgtpl |-> tpl, file |-> f, emits |-> 0, threw |-> FALSE]
  ELSE LET u == Update(f.doc, tpl) IN
       [cfgtpl |-> u.cfg, file |-> f, emits |-> u.emits, threw |-> u.threw]

\* load(): [cfgtpl, file, emits, threw].  lstatSync of a missing file and
\* JSON.parse of a malformed one throw into the same catch.
Load(tpl, f) ==
  IF ~f.exists \/ ~f.wellformed
  THEN [cfgtpl |-> tpl, file |-> Written(tpl), emits |-> 0, threw |-> FALSE]
  ELSE LET u == Update(f.doc, tpl) IN
       [cfgtpl |-> u.cfg, file |-> f, emits |-> u.emits, threw |-> u.threw]

\* save(): [cfgtpl, file, emits, threw].
Save(tpl, ref, f) ==
  IF ref = "null"
  THEN LET l == Load(tpl, f) IN
       IF l.threw THEN l ELSE [l EXCEPT !.file = Written(l.cfgtpl)]
  ELSE [cfgtpl |-> tpl, file |-> Written(tpl), emits |-> 0, threw |-> FALSE]

(***************************************************************************)
(* global.config.get(key): [threw, val, ref].  JSON.parse of JSON.stringify*)
(* builds new objects: ref tells whether the caller holds the store's own  *)
(* object ("live") or a copy.  There is no JSON text for undefined.        *)
(***************************************************************************)
\* The getter without the clone: the caller is handed the store's object.
GlobalGetLive(cfg, key) ==
  LET g == Get(cfg, key) IN
  [threw |-> g.threw, val |-> g.val, ref |-> "live"]

GlobalGet(cfg, key) ==
  LET g == Get(cfg, key) IN
  IF g.threw \/ g.val.kind \in {"undefined", "hole"}
  THEN [threw |-> TRUE, val |-> Undefined, ref |-> "copy"]
  ELSE [threw |-> FALSE, val |-> Stringify(g.val), ref |-> "copy"]

\* What a caller can make of the object v it holds by one assignment to a
\* property of v, or by one push if v is an array.
Writes(v) ==
  IF v.kind = "obj" THEN {PutProp(v, v.props[i].k, Str("changed")) : i \in 1..Len(v.props)}
  ELSE IF v.kind = "list" THEN {List(Append(v.props, Str("changed")))}
  ELSE {}

\* The same, or by one such write to an object or array that v holds.
Mutations(v) ==
  Writes(v) \cup
  (IF v.kind = "obj"
   THEN UNION {{PutProp(v, v.props[i].k, w) : w \in Writes(v.props[i].v)} :
                 i \in 1..Len(v.props)}
   ELSE {})

\* The tree with the object at key replaced by v: what a write through a live
\* reference to that object leaves.
RECURSIVE ReplaceAt(_, _, _, _)
ReplaceAt(tree, key, i, v) ==
  IF i > Len(key) THEN v
  ELSE PutProp(tree, key[i], ReplaceAt(GetProp(tree, key[i]), key, i + 1, v))

(***************************************************************************)
(* getLocale(), of app.getLocale() = lang and getSupportedLangs() = sups.  *)
(***************************************************************************)
\* sup.split('_')[1]
SubOf(sup) == IF Len(Split(sup, "_")) > 1 THEN Str(Split(sup, "_")[2]) ELSE Undefined

\* The loop over the supported languages from the i-th on, and the fallback.
RECURSIVE LocaleFrom(_, _, _, _)
LocaleFrom(mainlang, lang, sups, i) ==
  IF i > Len(sups) THEN "en_US"
  ELSE IF Split(sups[i], "_")[1] = mainlang /\ (lang = Null \/ SubOf(sups[i]) = lang)
  THEN sups[i]
  ELSE LocaleFrom(mainlang, lang, sups, i + 1)

\* getLocale that takes the first language of the main part, whatever its sub part.
GetLocaleMainOnly(lang, sups) ==
  LocaleFrom(IF Contains(lang, "-") THEN Split(lang, "-")[1] ELSE lang, Null, sups, 1)

GetLocale(lang, sups) ==
  IF Contains(lang, "-")
  THEN LocaleFrom(Split(lang, "-")[1], Str(Split(lang, "-")[2]), sups, 1)
  ELSE LocaleFrom(lang, Null, sups, 1)

(***************************************************************************)
(* getSupportedLangs() and getDictionaries(), of what readdirSync returns  *)
(* for the bundled folder (files) and for the folder of the user (user, if *)
(* readable: readdirSync throws for a folder that is absent or unreadable).*)
(* Both: [threw, val], val the array returned.                             *)
(***************************************************************************)
Lower ==
  {"a", "b", "c", "d", "e", "f", "g", "h", "i", "j", "k", "l", "m",
   "n", "o", "p", "q", "r", "s", "t", "u", "v", "w", "x", "y", "z"}

Upper ==
  {"A", "B", "C", "D", "E", "F", "G", "H", "I", "J", "K", "L", "M",
   "N", "O", "P", "Q", "R", "S", "T", "U", "V", "W", "X", "Y", "Z"}

\* [a-z]{m}_[A-Z]{n} is the text of s from the i-th character on, m + n + 1 long.
TagAt(s, i, m, n) ==
  /\ i + m + n <= Len(s)
  /\ \A k \in i..(i + m - 1) : SubSeq(s, k, k) \in Lower
  /\ SubSeq(s, i + m, i + m) = "_"
  /\ \A k \in (i + m + 1)..(i + m + n) : SubSeq(s, k, k) \in Upper

\* /[a-z]{1,3}_[A-Z]{1,3}\.json/.test(f): the pattern is looked for anywhere in f.
IsLangFile(f) ==
  \E i \in 1..Len(f), m \in 1..3, n \in 1..3 :
    /\ TagAt(f, i, m, n)
    /\ i + m + n + 5 <= Len(f)
    /\ SubSeq(f, i + m + n + 1, i + m + n + 5) = ".json"

\* /^[a-z]{1,3}_[A-Z]{1,3}$/.test(d): the pattern is all of d.
IsDictName(d) == \E m \in 1..3, n \in 1..3 : TagAt(d, 1, m, n) /\ m + n + 1 = Len(d)

\* f.substr(0, f.lastIndexOf('.')), for f with a dot.
StripExt(f) ==
  SubSeq(f, 1, (CHOOSE i \in 1..Len(f) :
                  /\ SubSeq(f, i, i) = "."
                  /\ \A j \in (i + 1)..Len(f) : SubSeq(f, j, j) # ".") - 1)

\* The loop over the files from the i-th on, pushing to languageFiles.
RECURSIVE ScanLangs(_, _, _)
ScanLangs(languageFiles, files, i) ==
  IF i > Len(files) THEN languageFiles
  ELSE IF IsLangFile(files[i])
  THEN ScanLangs(Append(languageFiles, Str(StripExt(files[i]))), files, i + 1)
  ELSE ScanLangs(languageFiles, files, i + 1)

\* getSupportedLangs with the second readdirSync outside of a try.
GetSupportedLangsUncaught(files, user, readable) ==
  IF readable
  THEN [threw |-> FALSE, val |-> List(ScanLangs(ScanLangs(<<>>, files, 1), user, 1))]
  ELSE [threw |-> TRUE, val |-> Undefined]

GetSupportedLangs(files, user, readable) ==
  IF readable
  THEN [threw |-> FALSE, val |-> List(ScanLangs(ScanLangs(<<>>, files, 1), user, 1))]
  ELSE [threw |-> FALSE, val |-> List(ScanLangs(<<>>, files, 1))]

\* The loop over the entries of scanfolder from the i-th on, pushing to dictLangs.
RECURSIVE ScanDicts(_, _, _, _)
ScanDicts(dictLangs, scanfolder, dirs, i) ==
  IF i > Len(dirs) THEN dictLangs
  ELSE IF /\ IsDictName(dirs[i])
          /\ IsDir(Str(scanfolder \o "/" \o dirs[i]))
          /\ IsDictAvailable(Str(dirs[i]))
  THEN ScanDicts(Append(dictLangs, Str(dirs[i])), scanfolder, dirs, i + 1)
  ELSE ScanDicts(dictLangs, scanfolder, dirs, i + 1)

GetDictionaries(dirs, user, readable) ==
  IF readable
  THEN [threw |-> FALSE,
        val |-> List(ScanDicts(ScanDicts(<<>>, BundledDicts, dirs, 1), UserDicts, user, 1))]
  ELSE [threw |-> FALSE, val |-> List(ScanDicts(<<>>, BundledDicts, dirs, 1))]

(***************************************************************************)
(* The inputs of the model.                                                *)
(***************************************************************************)
OptionKeys ==
  { <<"darkTheme">>, <<"lastFile">>, <<"pdf">>, <<"nokey">>,
    <<"pdf", "fontsize">>, <<"pdf", "nokey">>, <<"lastFile", "x">>,
    <<"nonexistent", "key">>, <<"pandoc", "length">>, <<"openPaths", "length">> }

OptionValues == { Null, Bool(TRUE), Num(14), Str("x"), Obj(<<P("x", Num(14))>>) }

E(key, v) == [key |-> key, v |-> v]

\* The objects given to bulkSet, each as its entries in order.
BulkMaps ==
  { << E(<<"darkTheme">>, Bool(TRUE)), E(<<"pdf", "fontsize">>, Num(14)) >>,
    << E(<<"pdf", "fontsize">>, Str("x")), E(<<"pandoc">>, Str("x")) >>,
    << E(<<"nonexistent", "key">>, Num(14)), E(<<"lastFile">>, Str("x")) >>,
    << E(<<"lastFile", "x">>, Num(14)), E(<<"darkTheme">>, Bool(TRUE)) >>,
    << >> }

\* The trees given to update, and found in the backing file.
Trees ==
  { Obj(<<>>),
    Obj(<< P("darkTheme", Bool(TRUE)), P("stale", Num(14)), P("uuid", Str("u-1")) >>),
    Obj(<< P("openPaths", List(<< Str("/b/dir"), Str("/gone"), Str("/gone"),
                                  Str("/a/file.txt"), Str("/b/dir") >>)),
           P("pdf", Obj(<< P("fontsize", Num(14)), P("extra", Str("x")) >>)),
           P("selectedDicts", List(<< Str("de_DE"), Str("fr_FR"), Str("en_US") >>)) >>),
    Obj(<< P("lastFile", Obj(<< P("x", Num(14)) >>)), P("pdf", Num(14)),
           P("darkTheme", Str("x")) >>),
    Obj(<< P("darkTheme", Bool(TRUE)), P("pdf", Null), P("pandoc", Str("x")) >>) }

InitialFiles == {AbsentFile, MalformedFile} \cup {Written(t) : t \in Trees}

\* process.env.PATH at the start: it holds the first additional path with a
\* trailing slash, the second without its own, and not the third.
InitialPATHs == {"/usr/bin:/opt/tex:/usr/local/bin/"}

\* The keys given to global.config.get: none (the whole tree), a container, a
\* list, a leaf in a container, a key under null, a key that does not exist.
GlobalKeys ==
  { <<>>, <<"pdf">>, <<"openPaths">>, <<"pdf", "fontsize">>, <<"lastFile", "x">>,
    <<"nokey">> }

\* The paths given to addPath and removePath.
PathArgs == {Str(AllPaths[i]) : i \in 1..Len(AllPaths)}

\* What app.getLocale() returns, and the languages getSupportedLangs() finds:
\* every choice of the tags in every order of enumeration.
RawLocales == {"en", "en-GB", "en-US", "de", "de-AT", "fr", "fr-FR"}

Tags == {"en_US", "en_GB", "de_DE"}

\* What a folder may hold: translations, a copy of one, a file that is none;
\* dictionaries, one that is not available (de_DE), a name that is none.
LangFileNames == {"en_US.json", "nl_NL.json", "en_US.json.bak", "notes.txt"}

DictNames == {"en_US", "nl_NL", "de_DE", "EN_us"}

\* The listings of a folder with entries of these names: no name twice.
Listings(names) ==
  {s \in UNION {[1..n -> names] : n \in 0..2} : \A i, j \in 1..Len(s) : s[i] = s[j] => i = j}

\* The folder of the user: its listing, or none when it cannot be read.
UserFolders(names) ==
  {[readable |-> TRUE, list |-> l] : l \in Listings(names)}
    \cup {[readable |-> FALSE, list |-> <<>>]}

SupportedLists ==
  {s \in UNION {[1..n -> Tags] : n \in 0..Cardinality(Tags)} :
     \A i, j \in 1..Len(s) : s[i] = s[j] => i = j}

(***************************************************************************)
(* The state machine: the constructor, then the public calls.              *)
(***************************************************************************)
Op(name, key, arg, map, note) ==
  [name |-> name, key |-> key, arg |-> arg, map |-> map, note |-> note]

Returned(v) == [threw |-> FALSE, val |-> v]

Threw == [threw |-> TRUE, val |-> Undefined]

Outcome(threw, v) == IF threw THEN Threw ELSE Returned(v)

\* The tree this.config refers to.
Config == IF config = "cfgtpl" THEN cfgtpl ELSE Null

Init ==
  /\ pc = "new"
  /\ cfgtpl = DefaultTemplate
  /\ config = "null"
  /\ rules = <<>>
  /\ file \in InitialFiles
  /\ envPATH \in InitialPATHs
  /\ op = Op("new", <<>>, Undefined, <<>>, "")
  /\ ret = Returned(Undefined)
  /\ emitted = 0
  /\ rets = <<>>
  /\ nops = 0

\* load(), from the constructor (pc = "new") or as a call of the built store.
DoLoad ==
  LET l == Load(cfgtpl, file) IN
  /\ config' = "cfgtpl"
  /\ cfgtpl' = l.cfgtpl
  /\ file' = l.file
  /\ emitted' = l.emits
  /\ ret' = Outcome(l.threw, Undefined)
  /\ op' = Op("load", <<>>, Undefined, <<>>, FileState(file))
  /\ UNCHANGED <<rules, envPATH, rets>>

DoCheckSystem ==
  LET c == CheckSystem(cfgtpl, envPATH) IN
  /\ cfgtpl' = c.cfg
  /\ envPATH' = c.path
  /\ emitted' = 0
  /\ ret' = Outcome(c.threw, Undefined)
  /\ op' = Op("checkSystem", <<>>, Undefined, <<>>, "")
  /\ UNCHANGED <<config, rules, file, rets>>

DoCheckPaths ==
  LET c == CheckPaths(cfgtpl) IN
  /\ cfgtpl' = c.cfg
  /\ emitted' = 0
  /\ ret' = Outcome(c.threw, Undefined)
  /\ op' = Op("checkPaths", <<>>, Undefined, <<>>, "")
  /\ UNCHANGED <<config, rules, file, envPATH, rets>>

\* A step of the constructor ends it when the step throws.
Step(from, to) ==
  /\ pc = from
  /\ pc' = IF ret'.threw THEN "crashed" ELSE to
  /\ UNCHANGED nops

ConstructLoad == DoLoad /\ Step("new", "loaded")

ConstructCheckSystem == DoCheckSystem /\ Step("loaded", "checked")

ConstructCheckPaths == DoCheckPaths /\ Step("checked", "pruned")

\* The rules are booted, and global.config is set up, last.
ConstructRules ==
  /\ pc = "pruned"
  /\ pc' = "ready"
  /\ rules' = ValidationRules
  /\ op' = Op("rules", <<>>, Undefined, <<>>, "")
  /\ ret' = Returned(Undefined)
  /\ emitted' = 0
  /\ UNCHANGED <<cfgtpl, config, file, envPATH, rets, nops>>

\* A public call of the built store.
Call ==
  /\ pc = "ready"
  /\ nops < MaxOps
  /\ nops' = nops + 1
  /\ UNCHANGED pc

CallGet ==
  \E key \in OptionKeys \cup {<<>>} :
    /\ Call
    /\ ret' = LET g == Get(cfgtpl, key) IN Outcome(g.threw, g.val)
    /\ emitted' = 0
    /\ op' = Op("get", key, Undefined, <<>>, "")
    /\ UNCHANGED <<cfgtpl, config, rules, file, envPATH, rets>>

CallSet ==
  \E key \in OptionKeys, value \in OptionValues :
    LET r == Set(cfgtpl, key, value, rules) IN
    /\ Call
    /\ cfgtpl' = r.cfg
    /\ emitted' = r.emits
    /\ ret' = Outcome(r.ret = "throw", Bool(r.ret = "true"))
    /\ op' = Op("set", key, value, <<>>, "")
    /\ UNCHANGED <<config, rules, file, envPATH, rets>>

CallBulkSet ==
  \E map \in BulkMaps :
    LET r == BulkSet(cfgtpl, map, rules) IN
    /\ Call
    /\ cfgtpl' = r.cfg
    /\ emitted' = r.emits
    /\ rets' = r.rets
    /\ ret' = Outcome(r.ret = "throw", Bool(r.ret = "true"))
    /\ op' = Op("bulkSet", <<>>, Undefined, map, "")
    /\ UNCHANGED <<config, rules, file, envPATH>>

CallUpdate ==
  \E newcfg \in Trees \cup {Null} :
    LET u == Update(newcfg, cfgtpl) IN
    /\ Call
    /\ cfgtpl' = u.cfg
    /\ emitted' = u.emits
    /\ ret' = Outcome(u.threw, Undefined)
    /\ op' = Op("update", <<>>, newcfg, <<>>, "")
    /\ UNCHANGED <<config, rules, file, envPATH, rets>>

\* global.config.get(key), as the other classes of the app call it.
CallGlobalGet ==
  \E key \in GlobalKeys :
    LET g == GlobalGet(cfgtpl, key) IN
    /\ Call
    /\ ret' = Outcome(g.threw, g.val)
    /\ emitted' = 0
    /\ op' = Op("globalGet", key, Undefined, <<>>, g.ref)
    /\ UNCHANGED <<cfgtpl, config, rules, file, envPATH, rets>>

\* The caller of global.config.get changes the object it was given; ret is
\* what the caller holds.  A write to a live object is a write to the tree.
CallerMutates ==
  \E m \in Mutations(ret.val) :
    /\ Call
    /\ op.name = "globalGet"
    /\ ~ret.threw
    /\ ret' = Returned(m)
    /\ cfgtpl' = IF op.note = "live" THEN ReplaceAt(cfgtpl, op.key, 1, m) ELSE cfgtpl
    /\ emitted' = 0
    /\ op' = Op("mutate", op.key, Undefined, <<>>, op.note)
    /\ UNCHANGED <<config, rules, file, envPATH, rets>>

CallAddPath ==
  \E p \in PathArgs :
    LET a == AddPath(cfgtpl, p) IN
    /\ Call
    /\ cfgtpl' = a.cfg
    /\ emitted' = 0
    /\ ret' = Outcome(a.ret = "throw", Bool(a.ret = "true"))
    /\ op' = Op("addPath", <<>>, p, <<>>, "")
    /\ UNCHANGED <<config, rules, file, envPATH, rets>>

CallRemovePath ==
  \E p \in PathArgs :
    LET r == RemovePath(cfgtpl, p) IN
    /\ Call
    /\ cfgtpl' = r.cfg
    /\ emitted' = 0
    /\ ret' = Outcome(r.threw, Undefined)
    /\ op' = Op("removePath", <<>>, p, <<>>, "")
    /\ UNCHANGED <<config, rules, file, envPATH, rets>>

CallLoad == Call /\ DoLoad

CallSave ==
  LET w == Save(cfgtpl, config, file) IN
  /\ Call
  /\ config' = "cfgtpl"
  /\ cfgtpl' = w.cfgtpl
  /\ file' = w.file
  /\ emitted' = w.emits
  /\ ret' = Outcome(w.threw, Undefined)
  /\ op' = Op("save", <<>>, Undefined, <<>>, "")
  /\ UNCHANGED <<rules, envPATH, rets>>

CallCheckSystem == Call /\ DoCheckSystem

CallCheckPaths == Call /\ DoCheckPaths

Next ==
  \/ ConstructLoad
  \/ ConstructCheckSystem
  \/ ConstructCheckPaths
  \/ ConstructRules
  \/ CallGet
  \/ CallGlobalGet
  \/ CallerMutates
  \/ CallAddPath
  \/ CallRemovePath
  \/ CallSet
  \/ CallBulkSet
  \/ CallUpdate
  \/ CallLoad
  \/ CallSave
  \/ CallCheckSystem
  \/ CallCheckPaths

Spec == Init /\ [][Next]_vars

(***************************************************************************)
(* getLocale reads the environment only: the locale of the system and the  *)
(* languages found, both held in op; ret is what it returns.               *)
(***************************************************************************)
LocaleInit ==
  /\ pc = "ready"
  /\ cfgtpl = DefaultTemplate
  /\ config = "cfgtpl"
  /\ rules = ValidationRules
  /\ file = Written(DefaultTemplate)
  /\ envPATH \in InitialPATHs
  /\ op \in {Op("locale", <<>>, Str(lang), sups, "") :
               lang \in RawLocales, sups \in SupportedLists}
  /\ ret = Returned(Undefined)
  /\ emitted = 0
  /\ rets = <<>>
  /\ nops = 0

CallGetLocale ==
  /\ op.name = "locale"
  /\ op' = [op EXCEPT !.name = "getLocale"]
  /\ ret' = Returned(Str(GetLocale(op.arg.str, op.map)))
  /\ UNCHANGED <<pc, cfgtpl, config, rules, file, envPATH, emitted, rets, nops>>

LocaleNext == CallGetLocale

LocaleSpec == LocaleInit /\ [][LocaleNext]_vars

(***************************************************************************)
(* The enumerators read the two folders anew at every call; op holds what  *)
(* the folders held at the call (map: bundled, arg: the user's, note:      *)
(* whether that one could be read), ret is what the call returned.         *)
(***************************************************************************)
EnumInit ==
  /\ pc = "ready"
  /\ cfgtpl = DefaultTemplate
  /\ config = "cfgtpl"
  /\ rules = ValidationRules
  /\ file = Written(DefaultTemplate)
  /\ envPATH \in InitialPATHs
  /\ op = Op("rules", <<>>, Undefined, <<>>, "")
  /\ ret = Returned(Undefined)
  /\ emitted = 0
  /\ rets = <<>>
  /\ nops = 0

Folder(u) == IF u.readable THEN "readable" ELSE "unreadable"

CallGetSupportedLangs ==
  \E files \in Listings(LangFileNames), u \in UserFolders(LangFileNames) :
    LET g == GetSupportedLangs(files, u.list, u.readable) IN
    /\ op' = Op("getSupportedLangs", <<>>, List(u.list), files, Folder(u))
    /\ ret' = Outcome(g.threw, g.val)
    /\ UNCHANGED <<pc, cfgtpl, config, rules, file, envPATH, emitted, rets, nops>>

CallGetDictionaries ==
  \E dirs \in Listings(DictNames), u \in UserFolders(DictNames) :
    LET g == GetDictionaries(dirs, u.list, u.readable) IN
    /\ op' = Op("getDictionaries", <<>>, List(u.list), dirs, Folder(u))
    /\ ret' = Outcome(g.threw, g.val)
    /\ UNCHANGED <<pc, cfgtpl, config, rules, file, envPATH, emitted, rets, nops>>

EnumNext == CallGetSupportedLangs \/ CallGetDictionaries

EnumSpec == EnumInit /\ [][EnumNext]_vars

(***************************************************************************)
(* What the claims speak of.                                               *)
(***************************************************************************)
\* The key is a key of the tree taken as a nested mapping: each segment is a
\* key of the object the segment before it names.
RECURSIVE TreeKeyFrom(_, _, _)
TreeKeyFrom(v, key, i) ==
  \/ i > Len(key)
  \/ /\ v.kind = "obj"
     /\ key[i] \in Keys(v)
     /\ TreeKeyFrom(GetProp(v, key[i]), key, i + 1)

IsTreeKey(tree, key) == Len(key) > 0 /\ TreeKeyFrom(tree, key, 1)

\* The key resolves by own properties, of objects and of lists and strings too
\* (length, indices); null holds nothing.  Every tree key resolves.
RECURSIVE ResolvesFrom(_, _, _)
ResolvesFrom(v, key, i) ==
  \/ i > Len(key)
  \/ /\ ~Nullish(v)
     /\ HasOwn(v, key[i])
     /\ ResolvesFrom(GetProp(v, key[i]), key, i + 1)

Resolves(tree, key) == Len(key) > 0 /\ ResolvesFrom(tree, key, 1)

\* The value the key resolves to.
RECURSIVE ValueAt(_, _, _)
ValueAt(v, key, i) == IF i > Len(key) THEN v ELSE ValueAt(GetProp(v, key[i]), key, i + 1)

\* The keys of the template: its options, and the options of its containers.
TemplateKeys ==
  {<<k>> : k \in Keys(DefaultTemplate)} \cup
  UNION {{<<k, j>> : j \in Keys(GetProp(DefaultTemplate, k))} :
           k \in {x \in Keys(DefaultTemplate) : GetProp(DefaultTemplate, x).kind = "obj"}}

SetTrue == Returned(Bool(TRUE))

SetFalse == Returned(Bool(FALSE))

\* C1: a set whose key does not resolve to a leaf of the tree, or whose value
\* the key's rule rejects, returns false, leaves the tree as it was and emits
\* no 'update'.
C1_RejectedSetReturnsFalse ==
  [][(/\ op'.name = "set"
      /\ \/ ~Resolves(cfgtpl, op'.key)
         \/ ~Validate(rules, Dotted(op'.key), op'.arg))
     => (ret' = SetFalse /\ cfgtpl' = cfgtpl /\ emitted' = 0)]_vars

\* C2: set returns true exactly when the key resolves to a leaf of the tree and
\* the key's rule accepts the value (it does for every tree key the rule accepts,
\* and only for keys that resolve); when it returns true, get(key) then returns
\* the value and the call emitted exactly one 'update'.
C2_SetTrueIffLeafAndValid ==
  [][op'.name = "set"
     => LET valid == Validate(rules, Dotted(op'.key), op'.arg) IN
        /\ (IsTreeKey(cfgtpl, op'.key) /\ valid) => ret' = SetTrue
        /\ (ret' = SetTrue) => (Resolves(cfgtpl, op'.key) /\ valid)
        /\ (ret' = SetTrue) => (/\ Get(cfgtpl', op'.key) = Returned(op'.arg)
                                /\ emitted' = 1)]_vars

\* C3: set never raises: every failed write is reported by the return value false.
C3_SetNeverRaises == op.name = "set" => ~ret.threw

\* C4: get of a key that does not resolve returns null without raising and
\* without creating a key; get() without a key returns the whole tree.
C4_GetNeverRaises ==
  [][op'.name = "get"
     => /\ ~ret'.threw
        /\ cfgtpl' = cfgtpl
        /\ op'.key = <<>> => ret'.val = cfgtpl
        /\ (op'.key # <<>> /\ ~Resolves(cfgtpl, op'.key)) => ret'.val = Null]_vars

\* C5: bulkSet attempts a set for every entry whatever the earlier ones did,
\* returns true exactly when every set returned true, leaves every successful
\* entry applied and every failed entry's key as it was.
C5_BulkSetAttemptsAll ==
  [][op'.name = "bulkSet"
     => /\ Len(rets') = Len(op'.map)
        /\ ~ret'.threw
        /\ (ret' = SetTrue) <=> (\A i \in 1..Len(rets') : rets'[i] = "true")
        /\ \A i \in 1..Len(rets') :
             IF rets'[i] = "true"
             THEN Get(cfgtpl', op'.map[i].key) = Returned(op'.map[i].v)
             ELSE Get(cfgtpl', op'.map[i].key) = Get(cfgtpl, op'.map[i].key)]_vars

\* What update(new, old) may leave as res: the keys of old, in their order; a
\* key absent from new with its value; a container merged in turn; a scalar,
\* list or null overwritten by new's value (when the call threw: or not yet).
RECURSIVE Merged(_, _, _, _)
Merged(old, new, res, threw) ==
  /\ res.kind = "obj"
  /\ Len(res.props) = Len(old.props)
  /\ \A i \in 1..Len(old.props) :
       LET k == old.props[i].k
           o == old.props[i].v
           r == res.props[i].v
       IN
       /\ res.props[i].k = k
       /\ IF Nullish(new) \/ ~HasOwn(new, k) THEN r = o
          ELSE IF o.kind = "obj" THEN Merged(o, GetProp(new, k), r, threw)
          ELSE r = GetProp(new, k) \/ (threw /\ r = o)

\* C6: update leaves the keys absent from newTree with their values, adds no
\* key, merges into the existing containers and overwrites scalars and lists;
\* the template's keys all exist after it, and update({}) changes nothing.
C6_UpdateMerges ==
  [][op'.name = "update"
     => /\ Merged(cfgtpl, op'.arg, cfgtpl', ret'.threw)
        /\ Keys(DefaultTemplate) \subseteq Keys(cfgtpl')
        /\ op'.arg = Obj(<<>>) => (cfgtpl' = cfgtpl /\ ~ret'.threw)]_vars

\* An update has merged into the container pdf: fontsize is the new tree's,
\* papertype, absent from the new tree, is kept, extra was not added.
C6_Witness ==
  /\ op.name = "update"
  /\ ~ret.threw
  /\ IsTreeKey(op.arg, <<"pdf", "extra">>)
  /\ Get(cfgtpl, <<"pdf", "fontsize">>) = Returned(Num(14))
  /\ Get(cfgtpl, <<"pdf", "papertype">>) = Returned(Str("a4paper"))
  /\ ~IsTreeKey(cfgtpl, <<"pdf", "extra">>)

\* C7: a call of update that returns has emitted exactly one 'update'.
C7_UpdateEmitsOnce == (op.name = "update" /\ ~ret.threw) => emitted = 1

\* C8: load of a backing file that exists and cannot be parsed fails loudly,
\* and leaves the file as it is.
C8_MalformedFileAborts ==
  (op.name = "load" /\ op.note = "malformed") => (ret.threw /\ file = MalformedFile)

\* C9: after load with no backing file, get(k) is the template's default for
\* every template key k, and the file holds the serialized default template.
C9_AbsentFileGivesDefaults ==
  (op.name = "load" /\ op.note = "absent")
    => /\ \A k \in TemplateKeys :
            Get(Config, k) = Returned(ValueAt(DefaultTemplate, k, 1))
       /\ file = Written(DefaultTemplate)

\* load has run with no backing file.
C9_Witness == op.name = "load" /\ op.note = "absent" /\ ~ret.threw /\ file.exists

\* C10: after a load of a parseable backing file, every template key missing
\* from the file holds its template default.
C10_MissingKeysHoldDefaults ==
  (op.name = "load" /\ op.note = "parsed" /\ ~ret.threw)
    => \A k \in Keys(DefaultTemplate) :
         ~HasOwn(file.doc, k) => GetProp(Config, k) = GetProp(DefaultTemplate, k)

\* The tree a new store holds after load() of the file that save() of the
\* tree t wrote is t.
RoundTrips(t) ==
  LET saved == Save(t, "cfgtpl", AbsentFile)
      fresh == Load(DefaultTemplate, saved.file)
  IN ~fresh.threw /\ fresh.cfgtpl = t

StoreWrites == {"set", "bulkSet", "update", "addPath", "removePath"}

\* C11: for the tree that a set, bulkSet, update, addPath or removePath leaves,
\* save() and then load() in a new store give a tree equal to it.
C11_SaveLoadRoundTrip ==
  [][(op'.name \in StoreWrites /\ ~ret'.threw) => RoundTrips(cfgtpl')]_vars

\* C12: a set, bulkSet, update, addPath or removePath that returns and has
\* changed the tree has emitted 'update'.
C12_MutationEmits ==
  [][(op'.name \in StoreWrites /\ ~ret'.threw /\ cfgtpl' # cfgtpl) => emitted' >= 1]_vars

\* C13: after a set, bulkSet, update or load, a key with a registered rule
\* whose value the call changed holds a value the rule accepts.
C13_WritesAreValidated ==
  [][op'.name \in {"set", "bulkSet", "update", "load"}
     => \A i \in 1..Len(ValidationRules) :
          LET key == Split(ValidationRules[i].key, ".") IN
          (Resolves(cfgtpl', key) /\ Get(cfgtpl', key) # Get(cfgtpl, key))
            => RuleValidate(ValidationRules[i], Get(cfgtpl', key).val)]_vars

OpenPaths(t) == GetProp(t, "openPaths")

\* The value is a list of path strings.
IsPathList(l) == l.kind = "list" /\ \A i \in 1..Len(l.props) : l.props[i].kind = "str"

\* No entry twice, no directory before a non-directory, each group ascending.
SortedNoDuplicates(l) ==
  /\ IsPathList(l)
  /\ \A i, j \in 1..Len(l.props) :
       i < j => /\ l.props[i] # l.props[j]
                /\ IsDir(l.props[i]) => IsDir(l.props[j])
                /\ (IsDir(l.props[i]) <=> IsDir(l.props[j]))
                     => Rank(l.props[i]) < Rank(l.props[j])

\* C15: checkPaths (the pruning at startup too) leaves the path list without
\* duplicates, non-directories first, each group ascending; addPath and
\* removePath keep it so; adding /a/file.txt, /b/dir, /a/file.txt to the empty
\* list gives [/a/file.txt, /b/dir].
C15_PathListSorted ==
  [][/\ (op'.name = "checkPaths" /\ IsPathList(OpenPaths(cfgtpl)))
          => SortedNoDuplicates(OpenPaths(cfgtpl'))
     /\ (op'.name \in {"addPath", "removePath"} /\ SortedNoDuplicates(OpenPaths(cfgtpl)))
          => SortedNoDuplicates(OpenPaths(cfgtpl'))
     /\ LET t1 == AddPath(DefaultTemplate, Str("/a/file.txt")).cfg
            t2 == AddPath(t1, Str("/b/dir")).cfg
            t3 == AddPath(t2, Str("/a/file.txt")).cfg
        IN OpenPaths(t3) = List(<<Str("/a/file.txt"), Str("/b/dir")>>)]_vars

\* addPath has put a directory between the file and the directory of the list.
C15_Witness ==
  /\ op.name = "addPath"
  /\ OpenPaths(cfgtpl) = List(<<Str("/a/file.txt"), Str("/a/dir"), Str("/b/dir")>>)

\* C16: on a list of paths, addPath(p) returns true and the list is the old
\* list with p added exactly when p is not ignorable or is a directory, and p
\* is not in the list; otherwise it returns false and nothing has changed.
C16_AddPathIffNew ==
  [][(op'.name = "addPath" /\ IsPathList(OpenPaths(cfgtpl)))
     => LET p == op'.arg
            old == OpenPaths(cfgtpl).props
            new == OpenPaths(cfgtpl').props
        IN
        IF (~IgnoreFile(p) \/ IsDir(p)) /\ ~Includes(old, p)
        THEN /\ ret' = SetTrue
             /\ Len(new) = Len(old) + 1
             /\ Includes(new, p)
             /\ \A i \in 1..Len(old) : Includes(new, old[i])
             /\ cfgtpl' = PutProp(cfgtpl, "openPaths", List(new))
        ELSE ret' = SetFalse /\ cfgtpl' = cfgtpl]_vars

\* addPath has refused a path that may be added, because the list holds it.
C16_Witness ==
  /\ op.name = "addPath"
  /\ ret = SetFalse
  /\ ~IgnoreFile(op.arg)
  /\ IsPathList(OpenPaths(cfgtpl))
  /\ Includes(OpenPaths(cfgtpl).props, op.arg)

\* C17: on a list of paths, removePath(p) raises nothing; when p is in the
\* list, the list is the old list without the first entry equal to p, when
\* not, the old list; nothing else changes.
C17_RemovePathFirstMatch ==
  [][(op'.name = "removePath" /\ IsPathList(OpenPaths(cfgtpl)))
     => LET p == op'.arg
            old == OpenPaths(cfgtpl).props
            new == OpenPaths(cfgtpl').props
        IN
        /\ ~ret'.threw
        /\ cfgtpl' = PutProp(cfgtpl, "openPaths", List(new))
        /\ IF Includes(old, p)
           THEN \E i \in 1..Len(old) :
                  /\ old[i] = p
                  /\ \A j \in 1..(i - 1) : old[j] # p
                  /\ new = RemoveAt(old, i)
           ELSE new = old]_vars

\* removePath has taken one entry out of a list that held the path twice.
C17_Witness ==
  /\ op.name = "removePath"
  /\ ~ret.threw
  /\ IsPathList(OpenPaths(cfgtpl))
  /\ Includes(OpenPaths(cfgtpl).props, op.arg)

\* The text of s before, and after, its first d.
Before(s, d) ==
  IF Contains(s, d)
  THEN SubSeq(s, 1, (CHOOSE i \in 1..Len(s) :
                       /\ SubSeq(s, i, i) = d
                       /\ \A j \in 1..(i - 1) : SubSeq(s, j, j) # d) - 1)
  ELSE s

After(s, d) == SubSeq(s, Len(Before(s, d)) + 2, Len(s))

\* The tag is of the raw locale's main part, and of its sub part if it has one.
TagMatches(tag, raw) ==
  /\ Before(tag, "_") = Before(raw, "-")
  /\ Contains(raw, "-") => (Contains(tag, "_") /\ After(tag, "_") = After(raw, "-"))

C19_CheckPathsPrunesAll ==
  [][(/\ op'.name = "checkPaths"
      /\ IsPathList(OpenPaths(cfgtpl))
      /\ IsPathList(GetProp(cfgtpl, "selectedDicts")))
     => LET old == OpenPaths(cfgtpl).props
            new == OpenPaths(cfgtpl').props
            dicts == GetProp(cfgtpl, "selectedDicts").props
        IN
        /\ ~ret'.threw
        /\ {new[i] : i \in 1..Len(new)} = {old[i] : i \in {j \in 1..Len(old) : LstatOk(old[j])}}
        /\ \A i, j \in 1..Len(new) : new[i] = new[j] => i = j
        /\ GetProp(cfgtpl', "selectedDicts") = List(SelectSeq(dicts, IsDictAvailable))
        /\ cfgtpl' = PutProp(PutProp(cfgtpl, "openPaths", List(new)),
                             "selectedDicts", GetProp(cfgtpl', "selectedDicts"))]_vars

\* The pruning at startup of a file with two stale paths and two stale
\* dictionaries in a row.
C19_Witness ==
  /\ op.name = "checkPaths"
  /\ pc = "pruned"
  /\ file.wellformed
  /\ HasOwn(file.doc, "openPaths")
  /\ Includes(OpenPaths(file.doc).props, Str("/gone"))
  /\ OpenPaths(cfgtpl) = List(<<Str("/a/file.txt"), Str("/b/dir")>>)
  /\ GetProp(cfgtpl, "selectedDicts") = List(<<Str("en_US")>>)

\* The number of entries of the search path that are the directory x, with
\* or without its trailing slash.
EntriesOf(path, x) ==
  Cardinality({i \in 1..Len(Split(path, Delim)) :
                 Split(path, Delim)[i] \in {x, OtherSlashForm(x)}})

\* C20: after checkSystem, a second checkSystem leaves the search path as it
\* is; each additional directory is an entry, in either form, once if it was
\* none before and as often as before otherwise.
C20_CheckSystemIdempotent ==
  [][(op'.name = "checkSystem" /\ ~ret'.threw)
     => /\ CheckSystem(cfgtpl', envPATH').path = envPATH'
        /\ \A i \in 1..Len(AdditionalPaths) :
             LET x == AdditionalPaths[i] IN
             EntriesOf(envPATH', x) =
               IF EntriesOf(envPATH, x) = 0 THEN 1 ELSE EntriesOf(envPATH, x)]_vars

\* checkSystem has run again on the search path it had augmented: the path
\* held /opt/tex and /usr/local/bin/ before, and was given neither again.
C20_Witness ==
  /\ op.name = "checkSystem"
  /\ nops > 0
  /\ envPATH = "/usr/bin:/opt/tex:/usr/local/bin/:/Library/TeX/texbin:."

\* The value is an identifier: a string that is not empty.
IsUuid(v) == v.kind = "str" /\ v.str # ""

\* C21: after a checkSystem that returns, uuid is not null; an identifier the
\* tree held before is the one it holds after; one that checkSystem made is
\* the version 5 UUID of the fixed name and namespace, the same each time.
C21_UuidSetOnce ==
  [][(op'.name = "checkSystem" /\ ~ret'.threw)
     => /\ ~Nullish(GetProp(cfgtpl', "uuid"))
        /\ IsUuid(GetProp(cfgtpl, "uuid")) => GetProp(cfgtpl', "uuid") = GetProp(cfgtpl, "uuid")
        /\ GetProp(cfgtpl', "uuid") # GetProp(cfgtpl, "uuid")
             => GetProp(cfgtpl', "uuid") = Uuid5]_vars

\* checkSystem has run on a tree with the identifier of the backing file.
C21_Witness ==
  /\ op.name = "checkSystem"
  /\ ~ret.threw
  /\ GetProp(cfgtpl, "uuid") = Str("u-1")

\* The entries of a listing that are translations, each without its
\* extension; the entries of a dictionary folder that are dictionaries.
LangTags(files) ==
  LET found == SelectSeq(files, IsLangFile) IN
  [i \in 1..Len(found) |-> Str(StripExt(found[i]))]

DictTags(scanfolder, dirs) ==
  LET found == SelectSeq(dirs, LAMBDA d : /\ IsDictName(d)
                                          /\ IsDir(Str(scanfolder \o "/" \o d))
                                          /\ IsDictAvailable(Str(d)))
  IN [i \in 1..Len(found) |-> Str(found[i])]

C23_TopLevelKeysFixed == Keys(cfgtpl) = Keys(DefaultTemplate)

\* update has returned from a tree with a key the template does not have.
C23_Witness ==
  /\ op.name = "update"
  /\ ~ret.threw
  /\ HasOwn(op.arg, "stale")
  /\ GetProp(cfgtpl, "darkTheme") = GetProp(op.arg, "darkTheme")

====
